---- MODULE Spec2Model ----
(***************************************************************************)
(* A model of check.py (suiChecker): the proxy validation, the decimals    *)
(* and price caches, the per-wallet fetch with proxy rotation, the fold    *)
(* of the results into totals and the final report.                        *)
(*                                                                         *)
(* Units.  The code computes with floats; the model computes with          *)
(* integers in fixed units, chosen so that every quantity is exact:        *)
(*   raw balance      1 = 10^4 base units of the coin                      *)
(*   amount           1 = 10^-5 coin, so raw / 10^decimals in the code is  *)
(*                    raw * 10^(9 - decimals) here (decimals <= 9)         *)
(*   price            1 = 1 US cent                                        *)
(*   fiat value       amount * price, 1 = 10^-7 USD                        *)
(***************************************************************************)
EXTENDS Naturals, Integers, Sequences, FiniteSets, TLC

\* ------------------------------------------------------------- constants
PRICE_CACHE_DURATION == 300
\* MIN_TOKEN_VALUE = 0.05 USD, in fiat value units (10^-7 USD)
MIN_TOKEN_VALUE == 500000
MAX_WORKERS == 10
MAX_RETRIES == 3
\* the fallback precision of get_token_decimals and get_token_balance
DEFAULT_DECIMALS == 9
\* the fixed precision of get_sui_balance and get_staked_sui
SUI_DECIMALS == 9
\* shorten_address's default prefix_len and suffix_len
PREFIX_LEN == 5
SUFFIX_LEN == 3

\* ---------------------------------------------------------------- bounds
MaxWallets == 2
MaxProxies == 2
\* the longest run of failing responses before a transport's final answer
MaxScript == 4
\* threads calling the cached lookups concurrently, and calls per thread
NumCallers == 3
\* the clock advances PRICE_CACHE_DURATION seconds in TicksPerTTL ticks
TicksPerTTL == 2
\* the addresses beyond MAX_WORKERS when the pool is looked at alone
MaxExtra == 1

\* ------------------------------------------------------------ the world
\* None of Python
NoProxy == <<"direct">>
NoValue == "absent"

Digit == <<"1", "2", "3", "4", "5", "6", "7", "8", "9">>

\* the i-th line of the wallets file: a sequence of characters.  Odd lines
\* are long addresses, even lines are short enough to be shown whole.
Addr(i) ==
    IF i % 2 = 1
    THEN <<"0", "x", "a", "b", "c", "d", "e", "f", "0", "0", "0", Digit[i]>>
    ELSE <<"0", "x", "d", "e", "f", Digit[i]>>

\* the i-th valid line of the proxies file, as parse_proxies renders it
ProxyUrl(i) == <<"http", Digit[i]>>

\* token types: the segments of a "::"-delimited path
T_SUI == <<"0x2", "sui", "SUI">>
T_USDC == <<"0xa", "usdc", "USDC">>
T_AFSUI == <<"0xb", "afsui", "AFSUI">>
T_CERT == <<"0xc", "cert", "CERT">>

\* the proxies files the runs of main are checked on
ProxyFiles == { <<>>, <<ProxyUrl(1)>>, <<ProxyUrl(1), ProxyUrl(2)>> }

\* the wallets files the runs are checked on: the first n addresses, and the
\* first address followed by one that holds nothing
EmptyAddr == Addr(MaxWallets + 1)
WalletFiles ==
    {[i \in 1..n |-> Addr(i)] : n \in 0..MaxWallets} \cup {<<Addr(1), EmptyAddr>>}

\* the token files the runs are checked on
TokenLists ==
    { <<T_SUI>>, <<T_CERT>>, <<T_AFSUI, T_USDC>>, <<T_USDC, T_USDC>> }


\* what the chain holds: suix_getCoinMetadata's decimals of a token type
ChainDecimals(t) == IF t = T_USDC THEN 6 ELSE 9

\* the chain's account of an address: Addr(i) is account i
Account(address) == CHOOSE i \in DOMAIN Digit : Addr(i) = address

\* what the chain holds for account i (raw balances)
ChainNative(i) == IF i = 1 THEN 1000000 ELSE 0
ChainStaked(i) == IF i = 2 THEN 500000 ELSE 0
ChainToken(i, t) ==
    CASE t = T_SUI -> ChainNative(i)
      [] t = T_USDC -> IF i <= 2 THEN 3 ELSE 0
      [] t = T_AFSUI -> IF i = 1 THEN 200000 ELSE 0
      [] t = T_CERT -> IF i = 2 THEN 100000 ELSE 0
      [] OTHER -> 0

\* what the price feed answers: feed id -> usd price (cents); CERT's id is
\* not listed by the feed
FeedIds == {"sui", "usd-coin", "aftermath-staked-sui"}
FeedData == [id \in FeedIds |->
    CASE id = "sui" -> 150
      [] id = "usd-coin" -> 100
      [] OTHER -> 160]

\* ------------------------------------------------------------ transport
\* A transport script: the responses to the successive requests of one call
\* are pre[1], pre[2], ... and fin from then on.
\*   "ok"   a 200 response with the expected body
\*   "err"  a transient network error (timeout, connection failure)
\*   "429"  HTTP 429     "http"  another HTTP error status
\*   "null" a 200 response whose body is {"result": null}
\*   "bad"  a 200 response whose body lacks the expected fields
Script(pre, fin) == [pre |-> pre, fin |-> fin]

Resp(scr, i) == IF i <= Len(scr.pre) THEN scr.pre[i] ELSE scr.fin

RECURSIVE Repeat(_, _)
Repeat(x, n) == IF n = 0 THEN <<>> ELSE <<x>> \o Repeat(x, n - 1)

RECURSIVE SeqsUpTo(_, _)
SeqsUpTo(S, n) ==
    IF n = 0 THEN {<<>>}
    ELSE LET shorter == SeqsUpTo(S, n - 1)
         IN shorter \cup {Append(s, x) : s \in {q \in shorter : Len(q) = n - 1}, x \in S}

\* requests.exceptions.RequestException: HTTPError is one of its subclasses
IsRequestException(r) == r \in {"err", "429", "http"}

RECURSIVE Pow10(_)
Pow10(n) == IF n = 0 THEN 1 ELSE 10 * Pow10(n - 1)

\* raw / 10**decimals, in amount units
ToAmount(raw, decimals) == raw * Pow10(9 - decimals)

\* ------------------------------------------------------ pure functions
\* test_proxy: up to MAX_RETRIES probes, the first success accepts
\* a test_proxy that gives up one probe early
RECURSIVE test_proxy_loop_short(_, _)
test_proxy_loop_short(scr, attempt) ==
    IF attempt >= MAX_RETRIES - 1 THEN [ok |-> FALSE, probes |-> attempt]
    ELSE IF Resp(scr, attempt + 1) \in {"ok", "null", "bad"}
         THEN [ok |-> TRUE, probes |-> attempt + 1]
         ELSE test_proxy_loop_short(scr, attempt + 1)

RECURSIVE test_proxy_loop(_, _)
test_proxy_loop(scr, attempt) ==
    IF attempt >= MAX_RETRIES THEN [ok |-> FALSE, probes |-> attempt]
    ELSE IF Resp(scr, attempt + 1) \in {"ok", "null", "bad"}
         THEN [ok |-> TRUE, probes |-> attempt + 1]
         ELSE test_proxy_loop(scr, attempt + 1)

test_proxy(scr) == test_proxy_loop(scr, 0)

shorten_address(address) ==
    IF Len(address) > PREFIX_LEN + SUFFIX_LEN + 3
    THEN SubSeq(address, 1, PREFIX_LEN) \o <<".", ".", ".">>
         \o SubSeq(address, Len(address) - SUFFIX_LEN + 1, Len(address))
    ELSE address

get_token_symbol(token_type) ==
    IF Len(token_type) > 1 THEN token_type[Len(token_type)] ELSE token_type[1]

\* str.lower on the symbols of the model
Lower(symbol) ==
    CASE symbol = "SUI" -> "sui"
      [] symbol = "USDC" -> "usdc"
      [] symbol = "AFSUI" -> "afsui"
      [] symbol = "CERT" -> "cert"
      [] OTHER -> symbol

\* symbol_to_id.get(symbol, symbol.lower())
symbol_to_id(symbol) ==
    CASE symbol = "SUI" -> "sui"
      [] symbol = "USDC" -> "usd-coin"
      [] symbol = "AFSUI" -> "aftermath-staked-sui"
      [] symbol = "CERT" -> "volo-staked-sui"
      [] OTHER -> Lower(symbol)

\* dict.get(key, default) on a function
Get(f, key, default) == IF key \in DOMAIN f THEN f[key] ELSE default

Range(s) == {s[i] : i \in DOMAIN s}

\* proxies or [None]
OrNone(proxies) == IF proxies = <<>> THEN <<NoProxy>> ELSE proxies

\* the mapping get_token_prices builds from the feed's answer
prices_of(token_symbols, data) ==
    [symbol \in Range(token_symbols) |-> Get(data, symbol_to_id(symbol), 0)]

zero_prices(token_symbols) == [symbol \in Range(token_symbols) |-> 0]

\* get_token_prices, line 129: the return that follows the retry loop of a
\* proxy.  It is in the body of the loop over the proxies.
prices_after_retries(plist, pi, n) == [ok |-> FALSE, reqs |-> n, last |-> pi]

\* get_token_prices, lines 98-129: request n+1 is attempt `attempt` through
\* plist[pi]
RECURSIVE prices_loop(_, _, _, _, _)
prices_loop(plist, pi, attempt, scr, n) ==
    LET r == Resp(scr, n + 1)
    IN CASE r = "ok" -> [ok |-> TRUE, reqs |-> n + 1, last |-> pi]
         [] r = "429" ->
              IF attempt + 1 < MAX_RETRIES
              THEN prices_loop(plist, pi, attempt + 1, scr, n + 1)
              ELSE prices_after_retries(plist, pi, n + 1)
         [] r = "err" ->
              IF attempt < MAX_RETRIES - 1
              THEN prices_loop(plist, pi, attempt + 1, scr, n + 1)
              ELSE prices_after_retries(plist, pi, n + 1)
         [] OTHER -> [ok |-> FALSE, reqs |-> n + 1, last |-> pi]

\* a get_token_prices that stores whatever it returns, the fallback too
prices_fetch_storing_fallback(token_symbols, proxies, scr, data) ==
    LET plist == OrNone(proxies)
        out == prices_loop(plist, 1, 0, scr, 0)
    IN [ret |-> IF out.ok THEN prices_of(token_symbols, data)
                ELSE zero_prices(token_symbols),
        store |-> TRUE,
        reqs |-> out.reqs,
        via |-> {plist[k] : k \in 1..out.last}]

\* the remote part of get_token_prices: what it returns, whether it stores
\* it, how many requests it made and through which proxies
prices_fetch(token_symbols, proxies, scr, data) ==
    LET plist == OrNone(proxies)
        out == prices_loop(plist, 1, 0, scr, 0)
    IN [ret |-> IF out.ok THEN prices_of(token_symbols, data)
                ELSE zero_prices(token_symbols),
        store |-> out.ok,
        reqs |-> out.reqs,
        via |-> {plist[k] : k \in 1..out.last}]

\* get_token_decimals, lines 161-162: the return that follows the retry loop
\* of a proxy.  It is in the body of the loop over the proxies.
decimals_after_retries(plist, pi, n) ==
    [ok |-> FALSE, null |-> FALSE, reqs |-> n, last |-> pi]

\* get_token_decimals, lines 143-162
RECURSIVE decimals_loop(_, _, _, _, _)
decimals_loop(plist, pi, attempt, scr, n) ==
    LET r == Resp(scr, n + 1)
    IN IF IsRequestException(r)
       THEN IF attempt < MAX_RETRIES - 1
            THEN decimals_loop(plist, pi, attempt + 1, scr, n + 1)
            ELSE decimals_after_retries(plist, pi, n + 1)
       ELSE [ok |-> TRUE, null |-> (r = "null"), reqs |-> n + 1, last |-> pi]

\* the remote part of get_token_decimals; meta is the decimals field of the
\* chain's metadata
decimals_fetch(proxies, scr, meta) ==
    LET plist == OrNone(proxies)
        out == decimals_loop(plist, 1, 0, scr, 0)
    IN [ret |-> IF out.ok /\ ~out.null THEN meta ELSE DEFAULT_DECIMALS,
        store |-> out.ok,
        reqs |-> out.reqs,
        via |-> {plist[k] : k \in 1..out.last}]

\* the retry loop shared by get_sui_balance, get_staked_sui and
\* get_token_balance: amount is what the body of an "ok" response converts to
RECURSIVE balance_loop_raising(_, _, _)
balance_loop_raising(scr, attempt, amount) ==
    LET r == Resp(scr, attempt + 1)
    IN CASE r = "ok" -> [raised |-> FALSE, ret |-> amount, reqs |-> attempt + 1]
         [] r \in {"null", "bad"} -> [raised |-> TRUE, ret |-> 0, reqs |-> attempt + 1]
         [] OTHER ->
              IF attempt < MAX_RETRIES - 1
              THEN balance_loop_raising(scr, attempt + 1, amount)
              ELSE [raised |-> TRUE, ret |-> 0, reqs |-> attempt + 1]

RECURSIVE balance_loop(_, _, _)
balance_loop(scr, attempt, amount) ==
    LET r == Resp(scr, attempt + 1)
    IN CASE r = "ok" -> [raised |-> FALSE, ret |-> amount, reqs |-> attempt + 1]
         [] r \in {"null", "bad"} -> [raised |-> TRUE, ret |-> 0, reqs |-> attempt + 1]
         [] OTHER ->
              IF attempt < MAX_RETRIES - 1
              THEN balance_loop(scr, attempt + 1, amount)
              ELSE [raised |-> FALSE, ret |-> 0, reqs |-> attempt + 1]

get_sui_balance(scr, raw) == balance_loop(scr, 0, ToAmount(raw, SUI_DECIMALS))

get_staked_sui(scr, raw) == balance_loop(scr, 0, ToAmount(raw, SUI_DECIMALS))

get_token_balance(cache, token_type, scr, raw) ==
    balance_loop(scr, 0, ToAmount(raw, Get(cache, token_type, DEFAULT_DECIMALS)))

\* format_balance: "-" for a zero balance, the balance alone when the price
\* is unavailable, else the balance and its value; the balance is shown to
\* 1/100 coin and the value to the cent
format_balance(balance, price) ==
    IF balance = 0 THEN <<"-">>
    ELSE IF price = 0 THEN <<"noprice", (balance + 500) \div 1000>>
    ELSE <<"value", (balance + 500) \div 1000, (balance * price + 50000) \div 100000>>

\* f"${total_value:,.2f}" if total_value > 0 else the "no price" text
format_total(total_value) ==
    IF total_value > 0 THEN <<"$", (total_value + 50000) \div 100000>> ELSE <<"noprice">>

\* the part of process_wallet's loop over the tokens that adds to total_value
RECURSIVE tokens_value(_, _, _)
tokens_value(token_types, token_balances, prices) ==
    IF token_types = <<>> THEN 0
    ELSE LET token == Head(token_types)
             price == Get(prices, get_token_symbol(token), 0)
         IN (IF price > 0 THEN token_balances[token] * price ELSE 0)
            + tokens_value(Tail(token_types), token_balances, prices)

\* the balance process_wallet's loop leaves in af_sui_balance (symbol AFSUI)
\* or v_sui_balance (symbol CERT): that of the last token with the symbol
RECURSIVE symbol_balance(_, _, _)
symbol_balance(symbol, token_types, token_balances) ==
    IF token_types = <<>> THEN 0
    ELSE LET last == token_types[Len(token_types)]
         IN IF get_token_symbol(last) = symbol THEN token_balances[last]
            ELSE symbol_balance(symbol, SubSeq(token_types, 1, Len(token_types) - 1),
                                token_balances)

\* process_wallet, lines 270-305: the record built from one fetch
wallet_result(index, wallet, token_types, sui_balance, staked_sui, token_balances, prices) ==
    LET sui_price == Get(prices, "SUI", 0)
        af_sui_balance == symbol_balance("AFSUI", token_types, token_balances)
        v_sui_balance == symbol_balance("CERT", token_types, token_balances)
        total_value == (IF sui_price > 0 THEN (sui_balance + staked_sui) * sui_price ELSE 0)
                       + tokens_value(token_types, token_balances, prices)
        formatted_balances ==
            [token \in Range(token_types) |->
                format_balance(token_balances[token],
                               Get(prices, get_token_symbol(token), 0))]
        total_sui == sui_balance + staked_sui + af_sui_balance + v_sui_balance
    IN [index |-> index,
        address |-> shorten_address(wallet),
        sui_balance |-> sui_balance,
        staked_sui |-> staked_sui,
        af_sui |-> af_sui_balance,
        v_sui |-> v_sui_balance,
        token_balances |-> token_balances,
        formatted_balances |-> formatted_balances,
        total_sui |-> total_sui,
        total_value |-> total_value,
        total_value_str |-> format_total(total_value)]

\* process_wallet, lines 302-304: the "row" entry of the record, which the
\* other entries and the prices determine
wallet_row(result, price_map) ==
    <<result.index, result.address,
      format_balance(result.sui_balance, Get(price_map, "SUI", 0)),
      format_balance(result.staked_sui, Get(price_map, "SUI", 0)),
      result.formatted_balances,
      format_balance(result.total_sui, Get(price_map, "SUI", 0)),
      result.total_value_str>>

\* the last position of token type t in the token list
LastPos(token_types, t) ==
    CHOOSE j \in DOMAIN token_types :
        token_types[j] = t /\ \A k \in DOMAIN token_types : token_types[k] = t => k <= j

\* get_all_balances: native, staked, then every token of the list in order;
\* a later fetch of a token type overwrites an earlier one.  An exception of
\* a sub-query ends the call.
get_all_balances(token_types, r_sui, r_staked, r_tokens) ==
    [raised |-> r_sui.raised \/ r_staked.raised
                \/ \E j \in DOMAIN token_types : r_tokens[j].raised,
     sui_balance |-> r_sui.ret,
     staked_sui |-> r_staked.ret,
     token_balances |->
        [t \in Range(token_types) |-> r_tokens[LastPos(token_types, t)].ret]]

\* process_wallet, line 266: the fetch found something
any_balance(b) ==
    b.sui_balance # 0 \/ b.staked_sui # 0
    \/ \E t \in DOMAIN b.token_balances : b.token_balances[t] # 0

\* a process_wallet that tries one proxy more than there are
wallet_attempts_one_more(proxies) == Len(proxies) + 1

\* process_wallet, line 260: range(len(proxies) if proxies else 1)
wallet_attempts(proxies) == IF proxies # <<>> THEN Len(proxies) ELSE 1

\* a process_wallet that does not rotate: every address starts at proxies[0]
wallet_proxy_unrotated(proxies, index, attempt) ==
    IF proxies # <<>> THEN proxies[(attempt % Len(proxies)) + 1] ELSE NoProxy

\* process_wallet, line 261: proxies[(index - 1 + attempt) % len(proxies)]
wallet_proxy(proxies, index, attempt) ==
    IF proxies # <<>> THEN proxies[((index - 1 + attempt) % Len(proxies)) + 1] ELSE NoProxy

\* ---------------------------------------------------------------- state
VARIABLES
    pc,                 \* where main is
    wallets,            \* main's wallets: the lines of the wallets file
    token_types,        \* main's token_types: the lines of the tokens file
    proxies,            \* main's proxies: the candidates, then the valid ones
    pending,            \* the candidates whose test_proxy future is not collected
    valid_proxies,
    failed_proxies,
    di,                 \* the tokens whose decimals main has asked for
    prices,             \* main's prices
    workers,            \* the process_wallet futures, by input position
    fi,                 \* the futures main has collected
    table_data,
    token_balances_all,
    totals,
    report,             \* what main printed: nothing, or the one table
    fetches,            \* get_all_balances calls, by input position
    probed,             \* candidate -> the responses to its probes, while proxies are validated
    decimals_cache,     \* the module's decimals_cache
    price_cache,        \* the module's price_cache
    net,                \* the requests issued so far: <<kind, proxy>>
    now,                \* time()
    call,               \* one process_wallet call, followed sub-query by sub-query
    last,               \* the latest completed call of a cached lookup
    resolved,           \* token type -> what its first get_token_decimals call returned
    callers,            \* the threads that call get_token_prices concurrently
    returned,           \* what the latest of their calls returned
    written_by          \* the thread that last wrote each key of price_cache

mainVars == <<pc, wallets, token_types, proxies, pending, valid_proxies, failed_proxies,
              di, prices, workers, fi, table_data, token_balances_all, totals, report,
              fetches, probed>>
cacheVars == <<decimals_cache, price_cache>>
walletVars == <<call>>
retryVars == <<last, resolved>>
raceVars == <<callers, returned, written_by>>
auxVars == <<walletVars, retryVars, raceVars>>
vars == <<mainVars, cacheVars, net, now, auxVars>>

\* the transports of the runs of main
ProbeScripts == {Script(Repeat("err", n), "ok") : n \in 0..MAX_RETRIES}
MetaScripts == {Script(Repeat("err", n), fin) : n \in 0..MAX_RETRIES, fin \in {"ok", "null"}}
\* a price feed that answers 429 to every request, and a transport on which
\* every request fails
AlwaysLimited == Script(<<>>, "429")
AlwaysFailing == Script(<<>>, "err")
FeedScripts ==
    {Script(pre, fin) : pre \in SeqsUpTo({"err", "429"}, MAX_RETRIES), fin \in {"ok", "http"}}
    \cup {AlwaysLimited, AlwaysFailing}
\* the transports of one whole fetch of a wallet (native, staked, tokens):
\* all answered, all answered at the third request, all down, the RPC down
\* for the token queries only, and a first answer without a result
Answered == Script(<<>>, "ok")
Retried == Script(Repeat("err", MAX_RETRIES - 1), "ok")
Down == Script(Repeat("err", MAX_RETRIES), "ok")
Malformed == Script(<<>>, "null")
FetchTransports ==
    { [sui |-> Answered, staked |-> Answered, token |-> Answered],
      [sui |-> Retried, staked |-> Retried, token |-> Retried],
      [sui |-> Down, staked |-> Down, token |-> Down],
      [sui |-> Answered, staked |-> Answered, token |-> Down],
      [sui |-> Malformed, staked |-> Answered, token |-> Answered] }

Requests(kind, via) == {<<kind, p>> : p \in via}

NoTotals ==
    [sui |-> 0, staked |-> 0, af_sui |-> 0, v_sui |-> 0, tokens |-> <<>>, total_value |-> 0]

InitCaches ==
    /\ decimals_cache = <<>>
    /\ price_cache = <<>>
    /\ net = {}
    /\ now = 0

\* the variables a specification does not use keep these values
IdleWallet == call = <<>>
IdleRetry == last = <<>> /\ resolved = <<>>
IdleRace == callers = <<>> /\ returned = <<>> /\ written_by = <<>>

IdleMain ==
    /\ pc = "idle"
    /\ wallets = <<>> /\ token_types = <<>> /\ proxies = <<>>
    /\ pending = {} /\ valid_proxies = <<>> /\ failed_proxies = <<>>
    /\ di = 0 /\ prices = <<>> /\ workers = <<>> /\ fi = 0
    /\ table_data = <<>> /\ token_balances_all = <<>> /\ totals = NoTotals
    /\ report = <<>> /\ fetches = <<>> /\ probed = <<>>

InitMain ==
    /\ pc = "start"
    /\ wallets \in WalletFiles
    /\ token_types \in TokenLists
    /\ proxies \in ProxyFiles
    /\ pending = {}
    /\ valid_proxies = <<>>
    /\ failed_proxies = <<>>
    /\ di = 0
    /\ prices = <<>>
    /\ workers = <<>>
    /\ fi = 0
    /\ table_data = <<>>
    /\ token_balances_all = <<>>
    /\ totals = NoTotals
    /\ report = <<>>
    /\ fetches = <<>>
    /\ probed = <<>>

\* ----------------------------------------------------------------- main
\* CheckWallets without the test of line 312: main goes on with no wallets
CheckWallets_no_halt ==
    /\ pc = "start"
    /\ pc' = IF proxies # <<>> THEN "validate" ELSE "decimals"
    /\ pending' = Range(proxies)
    /\ UNCHANGED <<wallets, token_types, proxies, valid_proxies, failed_proxies, di, prices,
                   workers, fi, table_data, token_balances_all, totals, report, fetches>>
    /\ UNCHANGED <<cacheVars, net, now>>
    /\ UNCHANGED <<auxVars, probed>>

\* lines 312-317: no wallets is a setup failure; else validate the proxies,
\* if there are any
CheckWallets ==
    /\ pc = "start"
    /\ pc' = IF wallets = <<>> THEN "done"
             ELSE IF proxies # <<>> THEN "validate" ELSE "decimals"
    /\ pending' = IF wallets # <<>> THEN Range(proxies) ELSE {}
    /\ UNCHANGED <<wallets, token_types, proxies, valid_proxies, failed_proxies, di, prices,
                   workers, fi, table_data, token_balances_all, totals, report, fetches>>
    /\ UNCHANGED <<cacheVars, net, now>>
    /\ UNCHANGED <<auxVars, probed>>

\* lines 321-328: a test_proxy future completes (in any order) and main
\* files its candidate
TestProxy(proxy) ==
    /\ pc = "validate"
    /\ proxy \in pending
    /\ \E scr \in ProbeScripts :
         LET result == test_proxy(scr)
         IN /\ valid_proxies' = IF result.ok THEN Append(valid_proxies, proxy)
                                ELSE valid_proxies
            /\ failed_proxies' = IF result.ok THEN failed_proxies
                                 ELSE Append(failed_proxies, proxy)
            /\ probed' = (proxy :> [k \in 1..result.probes |-> Resp(scr, k)]) @@ probed
    /\ pending' = pending \ {proxy}
    /\ net' = net \cup {<<"probe", proxy>>}
    /\ UNCHANGED <<pc, wallets, token_types, proxies, di, prices, workers, fi, table_data,
                   token_balances_all, totals, report, fetches>>
    /\ UNCHANGED <<cacheVars, now>>
    /\ UNCHANGED auxVars

\* lines 330-341: the valid proxies replace the candidates
EndValidation ==
    /\ pc = "validate"
    /\ pending = {}
    /\ proxies' = valid_proxies
    /\ probed' = <<>>
    /\ pc' = "decimals"
    /\ UNCHANGED <<wallets, token_types, pending, valid_proxies, failed_proxies, di, prices,
                   workers, fi, table_data, token_balances_all, totals, report, fetches>>
    /\ UNCHANGED <<cacheVars, net, now>>
    /\ UNCHANGED auxVars

\* lines 344-345: get_token_decimals(token, proxies) for the next token
WarmDecimals ==
    /\ pc = "decimals"
    /\ di < Len(token_types)
    /\ LET token == token_types[di + 1]
       IN IF token \in DOMAIN decimals_cache
          THEN UNCHANGED <<decimals_cache, net>>
          ELSE \E scr \in MetaScripts :
                 LET out == decimals_fetch(proxies, scr, ChainDecimals(token))
                 IN /\ decimals_cache' =
                         IF out.store THEN (token :> out.ret) @@ decimals_cache
                         ELSE decimals_cache
                    /\ net' = net \cup Requests("decimals", out.via)
    /\ di' = di + 1
    /\ UNCHANGED <<pc, wallets, token_types, proxies, pending, valid_proxies, failed_proxies,
                   prices, workers, fi, table_data, token_balances_all, totals, report,
                   fetches>>
    /\ UNCHANGED <<price_cache, now>>
    /\ UNCHANGED <<auxVars, probed>>

\* a check that takes a snapshot of exactly PRICE_CACHE_DURATION seconds for fresh
prices_hit_at_ttl(cache, time) ==
    "timestamp" \in DOMAIN cache /\ time - cache.timestamp <= PRICE_CACHE_DURATION

\* get_token_prices, line 83: the cached snapshot is fresh
prices_hit(cache, time) ==
    "timestamp" \in DOMAIN cache /\ time - cache.timestamp < PRICE_CACHE_DURATION

\* get_token_prices, lines 111-113
prices_store(mapping, time) == [prices |-> mapping, timestamp |-> time]

\* line 347-348: ["SUI"] + the symbols of the token types
symbols_with_sui(tokens) == <<"SUI">> \o [j \in DOMAIN tokens |-> get_token_symbol(tokens[j])]

\* lines 347-351: get_token_prices(token_symbols_with_sui, proxies)
WarmPrices ==
    /\ pc = "decimals"
    /\ di = Len(token_types)
    /\ IF prices_hit(price_cache, now)
       THEN /\ prices' = price_cache.prices
            /\ UNCHANGED <<price_cache, net>>
       ELSE \E scr \in FeedScripts :
              LET out == prices_fetch(symbols_with_sui(token_types), proxies, scr, FeedData)
              IN /\ prices' = out.ret
                 /\ price_cache' = IF out.store THEN prices_store(out.ret, now)
                                   ELSE price_cache
                 /\ net' = net \cup Requests("prices", out.via)
    /\ pc' = "submit"
    /\ UNCHANGED <<wallets, token_types, proxies, pending, valid_proxies, failed_proxies, di,
                   workers, fi, table_data, token_balances_all, totals, report, fetches>>
    /\ UNCHANGED <<decimals_cache, now>>
    /\ UNCHANGED <<auxVars, probed>>

\* a main that submits the futures without waiting for the warm-up calls
Submit_unwarmed ==
    /\ pc \in {"decimals", "submit"}
    /\ table_data' = <<>>
    /\ token_balances_all' = [token \in Range(token_types) |-> <<>>]
    /\ totals' = [sui |-> 0, staked |-> 0, af_sui |-> 0, v_sui |-> 0,
                  tokens |-> [token \in Range(token_types) |-> 0], total_value |-> 0]
    /\ workers' = [i \in DOMAIN wallets |-> [st |-> "queued", attempt |-> 0, res |-> NoValue]]
    /\ fetches' = [i \in DOMAIN wallets |-> 0]
    /\ fi' = 0
    /\ pc' = "fetch"
    /\ UNCHANGED <<wallets, token_types, proxies, pending, valid_proxies, failed_proxies, di,
                   prices, report>>
    /\ UNCHANGED <<cacheVars, net, now>>
    /\ UNCHANGED <<auxVars, probed>>

\* lines 353-367: the empty tables, and one process_wallet future per wallet
Submit ==
    /\ pc = "submit"
    /\ table_data' = <<>>
    /\ token_balances_all' = [token \in Range(token_types) |-> <<>>]
    /\ totals' = [sui |-> 0, staked |-> 0, af_sui |-> 0, v_sui |-> 0,
                  tokens |-> [token \in Range(token_types) |-> 0], total_value |-> 0]
    /\ workers' = [i \in DOMAIN wallets |-> [st |-> "queued", attempt |-> 0, res |-> NoValue]]
    /\ fetches' = [i \in DOMAIN wallets |-> 0]
    /\ fi' = 0
    /\ pc' = "fetch"
    /\ UNCHANGED <<wallets, token_types, proxies, pending, valid_proxies, failed_proxies, di,
                   prices, report>>
    /\ UNCHANGED <<cacheVars, net, now>>
    /\ UNCHANGED <<auxVars, probed>>

\* a pool that starts every submitted future at once
StartWallet_uncapped(i) ==
    /\ pc = "fetch"
    /\ i \in DOMAIN workers
    /\ workers[i].st = "queued"
    /\ \A k \in 1..(i - 1) : workers[k].st # "queued"
    /\ workers' = [workers EXCEPT ![i].st = "running"]
    /\ UNCHANGED <<pc, wallets, token_types, proxies, pending, valid_proxies, failed_proxies,
                   di, prices, fi, table_data, token_balances_all, totals, report, fetches>>
    /\ UNCHANGED <<cacheVars, net, now>>
    /\ UNCHANGED <<auxVars, probed>>

\* ThreadPoolExecutor(max_workers=MAX_WORKERS): a thread of the pool takes
\* the oldest queued future while fewer than MAX_WORKERS are running
StartWallet(i) ==
    /\ pc = "fetch"
    /\ i \in DOMAIN workers
    /\ workers[i].st = "queued"
    /\ \A k \in 1..(i - 1) : workers[k].st # "queued"
    /\ Cardinality({k \in DOMAIN workers : workers[k].st = "running"}) < MAX_WORKERS
    /\ workers' = [workers EXCEPT ![i].st = "running"]
    /\ UNCHANGED <<pc, wallets, token_types, proxies, pending, valid_proxies, failed_proxies,
                   di, prices, fi, table_data, token_balances_all, totals, report, fetches>>
    /\ UNCHANGED <<cacheVars, net, now>>
    /\ UNCHANGED <<auxVars, probed>>

\* process_wallet, lines 260-305: one turn of the loop over the proxies: a
\* whole fetch through the proxy of this attempt; the record is built after
\* the first fetch that finds something, or after the last one
AttemptWallet(i) ==
    /\ pc = "fetch"
    /\ i \in DOMAIN workers
    /\ workers[i].st = "running"
    /\ LET attempt == workers[i].attempt
           proxy == wallet_proxy(proxies, i, attempt)
       IN /\ \E tr \in FetchTransports :
                LET r_sui == get_sui_balance(tr.sui, ChainNative(Account(wallets[i])))
                    r_staked == get_staked_sui(tr.staked, ChainStaked(Account(wallets[i])))
                    r_tokens == [j \in DOMAIN token_types |->
                                   get_token_balance(decimals_cache, token_types[j], tr.token,
                                                     ChainToken(Account(wallets[i]), token_types[j]))]
                    b == get_all_balances(token_types, r_sui, r_staked, r_tokens)
                IN
                   workers' = [workers EXCEPT ![i] =
                       IF b.raised THEN [st |-> "raised", attempt |-> 0, res |-> NoValue]
                       ELSE IF any_balance(b) \/ attempt + 1 >= wallet_attempts(proxies)
                       THEN [st |-> "done", attempt |-> 0,
                             res |-> wallet_result(i, wallets[i], token_types, b.sui_balance,
                                                   b.staked_sui, b.token_balances, prices)]
                       ELSE [st |-> "running", attempt |-> attempt + 1, res |-> NoValue]]
          /\ net' = net \cup {<<"balance", proxy>>}
    /\ fetches' = [fetches EXCEPT ![i] = @ + 1]
    /\ UNCHANGED <<pc, wallets, token_types, proxies, pending, valid_proxies, failed_proxies,
                   di, prices, fi, table_data, token_balances_all, totals, report>>
    /\ UNCHANGED <<cacheVars, now>>
    /\ UNCHANGED <<auxVars, probed>>

\* a fold that keeps the balances of the last record instead of adding them
fold_tokens_last(tokens, all, sums, balances) ==
    [all |-> [token \in DOMAIN all |->
                 IF token \in Range(tokens) THEN Append(all[token], balances[token])
                 ELSE all[token]],
     sums |-> [token \in DOMAIN sums |->
                 IF token \in Range(tokens) THEN balances[token] ELSE sums[token]]]

\* lines 373-375: the loop over the tokens, in list order
RECURSIVE fold_tokens(_, _, _, _)
fold_tokens(tokens, all, sums, balances) ==
    IF tokens = <<>> THEN [all |-> all, sums |-> sums]
    ELSE LET token == Head(tokens)
         IN fold_tokens(Tail(tokens),
                        [all EXCEPT ![token] = Append(@, balances[token])],
                        [sums EXCEPT ![token] = @ + balances[token]],
                        balances)

\* lines 369-382: main takes the next future in input order; the result of a
\* future that raised is logged and left out
Collect ==
    /\ pc = "fetch"
    /\ fi < Len(wallets)
    /\ workers[fi + 1].st \in {"done", "raised"}
    /\ IF workers[fi + 1].st = "done"
       THEN LET result == workers[fi + 1].res
                folded == fold_tokens(token_types, token_balances_all, totals.tokens,
                                      result.token_balances)
            IN /\ table_data' = Append(table_data, wallet_row(result, prices))
               /\ token_balances_all' = folded.all
               /\ totals' = [sui |-> totals.sui + result.sui_balance,
                             staked |-> totals.staked + result.staked_sui,
                             af_sui |-> totals.af_sui + result.af_sui,
                             v_sui |-> totals.v_sui + result.v_sui,
                             tokens |-> folded.sums,
                             total_value |-> totals.total_value + result.total_value]
       ELSE UNCHANGED <<table_data, token_balances_all, totals>>
    /\ fi' = fi + 1
    /\ UNCHANGED <<pc, wallets, token_types, proxies, pending, valid_proxies, failed_proxies,
                   di, prices, workers, report, fetches>>
    /\ UNCHANGED <<cacheVars, net, now>>
    /\ UNCHANGED <<auxVars, probed>>

\* lines 384-391: the tokens that get a column
is_significant(token, all, sums, price_map) ==
    /\ \E k \in DOMAIN all[token] : all[token][k] > 0
    /\ sums[token] * Get(price_map, get_token_symbol(token), 0) > MIN_TOKEN_VALUE

significant_tokens_of(tokens, all, sums, price_map) ==
    SelectSeq(tokens, LAMBDA token : is_significant(token, all, sums, price_map))

\* line 393: get_token_symbol(token).replace("CERT", "VSUI")
column_name(token) ==
    IF get_token_symbol(token) = "CERT" THEN "VSUI" ELSE get_token_symbol(token)

\* lines 393-416: the headers, one row per entry of table_data, the totals
build_report(rows, tokens, all, sums_all, price_map, n_wallets) ==
    LET significant == significant_tokens_of(tokens, all, sums_all.tokens, price_map)
        sui_price == Get(price_map, "SUI", 0)
        total_sui == sums_all.sui + sums_all.staked + sums_all.af_sui + sums_all.v_sui
    IN [headers |-> <<"#", "address", "SUI", "staked">>
                    \o [j \in DOMAIN significant |-> column_name(significant[j])]
                    \o <<"total SUI", "total value">>,
        significant |-> significant,
        rows |-> [r \in DOMAIN rows |->
                     SubSeq(rows[r], 1, 4)
                     \o [j \in DOMAIN significant |-> rows[r][5][significant[j]]]
                     \o <<rows[r][6], rows[r][7]>>],
        total_row |-> <<"total", n_wallets,
                        format_balance(sums_all.sui, sui_price),
                        format_balance(sums_all.staked, sui_price)>>
                      \o [j \in DOMAIN significant |->
                            format_balance(sums_all.tokens[significant[j]],
                                           Get(price_map, get_token_symbol(significant[j]), 0))]
                      \o <<format_balance(total_sui, sui_price),
                           format_total(sums_all.total_value)>>]

\* lines 384-420: the report is built and printed
Report ==
    /\ pc = "fetch"
    /\ fi = Len(wallets)
    /\ report' = <<build_report(table_data, token_types, token_balances_all, totals,
                                prices, Len(wallets))>>
    /\ pc' = "done"
    /\ UNCHANGED <<wallets, token_types, proxies, pending, valid_proxies, failed_proxies, di,
                   prices, workers, fi, table_data, token_balances_all, totals, fetches>>
    /\ UNCHANGED <<cacheVars, net, now>>
    /\ UNCHANGED <<auxVars, probed>>

Next ==
    \/ CheckWallets
    \/ \E proxy \in pending : TestProxy(proxy)
    \/ EndValidation
    \/ WarmDecimals
    \/ WarmPrices
    \/ Submit
    \/ \E i \in DOMAIN workers : StartWallet(i)
    \/ \E i \in DOMAIN workers : AttemptWallet(i)
    \/ Collect
    \/ Report

Init == InitMain /\ InitCaches /\ IdleWallet /\ IdleRetry /\ IdleRace

Spec == Init /\ [][Next]_vars

\* ------------------------------------------------------ claims on main
RECURSIVE SumOver(_, _)
SumOver(S, f) ==
    IF S = {} THEN 0
    ELSE LET x == CHOOSE y \in S : TRUE IN f[x] + SumOver(S \ {x}, f)

\* the wallets whose record main folded
Folded == {i \in DOMAIN workers : i <= fi /\ workers[i].st = "done"}

Printed == pc = "done" /\ report # <<>>
Table == report[1]

\* C1: whatever the workers' completion order and the outcome of each remote
\* query (an error raised inside process_wallet included), the report of a
\* run with a non-empty address list has exactly one row per input address,
\* in input order, followed by the totals row.
C1_OneRowPerAddress ==
    (pc = "done" /\ wallets # <<>>) =>
        /\ report # <<>>
        /\ Len(Table.rows) = Len(wallets)
        /\ \A i \in DOMAIN wallets :
             /\ i \in DOMAIN Table.rows
             /\ Table.rows[i][1] = i
             /\ Table.rows[i][2] = shorten_address(wallets[i])
        /\ Table.total_row[1] = "total"

\* C10: with an empty address list main halts before any network request:
\* no probe, no decimals or price lookup, no balance query, and no Table.
C10_EmptyListHalts ==
    wallets = <<>> =>
        /\ net = {}
        /\ report = <<>>
        /\ pc \in {"start", "done"}
        /\ decimals_cache = <<>> /\ price_cache = <<>>

\* C10's case: the run is over with no wallets although there were proxies
\* to probe and tokens to look up
C10_Witness ==
    wallets = <<>> /\ pc = "done" /\ proxies # <<>> /\ token_types # <<>>

\* every candidate failed validation, and validation is over
AllProxiesFailed ==
    /\ pc \notin {"start", "validate"}
    /\ failed_proxies # <<>>
    /\ valid_proxies = <<>>

\* C9: if every candidate proxy fails validation main continues unproxied:
\* every later request is issued without a proxy, each address is fetched
\* exactly once, and the report has one row per address.
C9_UnproxiedCompleteReport ==
    AllProxiesFailed =>
        /\ proxies = <<>>
        /\ \A r \in net : r[1] # "probe" => r[2] = NoProxy
        /\ \A i \in DOMAIN workers :
             /\ fetches[i] <= 1
             /\ workers[i].st \in {"done", "raised"} => fetches[i] = 1
        /\ pc = "done" =>
             /\ report # <<>>
             /\ Len(Table.rows) = Len(wallets)
             /\ \A i \in DOMAIN wallets :
                  i \in DOMAIN Table.rows /\ Table.rows[i][1] = i

\* the part of C9 that does not depend on the rows of the report
C9_UnproxiedFetchedOnce ==
    AllProxiesFailed =>
        /\ proxies = <<>>
        /\ \A r \in net : r[1] # "probe" => r[2] = NoProxy
        /\ \A i \in DOMAIN workers :
             /\ fetches[i] <= 1
             /\ workers[i].st \in {"done", "raised"} => fetches[i] = 1
        /\ pc = "done" => report # <<>>

\* the token types of the list, and those among them with a given symbol
ListedTypes == Range(token_types)
NoDuplicates ==
    \A j, k \in DOMAIN token_types :
        get_token_symbol(token_types[j]) = get_token_symbol(token_types[k]) => j = k

PriceOf(token) == Get(prices, get_token_symbol(token), 0)

\* the balance of a token type summed over the folded addresses, each once
AggregateBalance(token) ==
    SumOver(Folded, [i \in Folded |-> workers[i].res.token_balances[token]])

\* the fiat value of one address: native, staked and every listed token type
AddressValue(i) ==
    LET r == workers[i].res
    IN (r.sui_balance + r.staked_sui) * Get(prices, "SUI", 0)
       + SumOver(ListedTypes,
                 [token \in ListedTypes |-> r.token_balances[token] * PriceOf(token)])

\* the native-equivalent figure of one address
AddressNative(i) ==
    LET r == workers[i].res
    IN r.sui_balance + r.staked_sui
       + SumOver(ListedTypes,
                 [token \in ListedTypes |->
                    IF get_token_symbol(token) \in {"AFSUI", "CERT"}
                    THEN r.token_balances[token] ELSE 0])

ColumnFilter ==
    /\ \A token \in ListedTypes :
         token \in Range(Table.significant)
           <=> /\ \E i \in Folded : workers[i].res.token_balances[token] > 0
               /\ AggregateBalance(token) * PriceOf(token) > MIN_TOKEN_VALUE
    /\ \A i \in Folded :
         /\ workers[i].res.total_value = AddressValue(i)
         /\ workers[i].res.total_sui = AddressNative(i)
    /\ totals.total_value = SumOver(Folded, [i \in Folded |-> AddressValue(i)])
    /\ totals.sui + totals.staked + totals.af_sui + totals.v_sui
         = SumOver(Folded, [i \in Folded |-> AddressNative(i)])

\* C8: a token type is a report column iff some address holds it and its
\* balance summed over the addresses, times its price, exceeds
\* MIN_TOKEN_VALUE; filtered or not, its balance counts in each address's
\* fiat value, in the portfolio's fiat value and (AFSUI, CERT) in the
\* native-equivalent total.
C8_ColumnFilter == Printed => ColumnFilter

\* the same holds of every token list in which no token type and no symbol
\* occurs twice
ColumnFilter_NoRepeats == (Printed /\ NoDuplicates) => ColumnFilter

\* the end-to-end run: addresses [A1, A2], the SUI type as the only token,
\* native balances [10.0, 0.0], nothing staked, SUI at 1.50 USD, every
\* balance read as the chain holds it
EndToEndRun ==
    /\ Printed
    /\ wallets = <<Addr(1), EmptyAddr>>
    /\ token_types = <<T_SUI>>
    /\ Get(prices, "SUI", 0) = 150
    /\ \A i \in DOMAIN wallets : workers[i].st = "done"
    /\ workers[1].res.sui_balance = 1000000 /\ workers[1].res.staked_sui = 0
    /\ workers[1].res.token_balances[T_SUI] = 1000000
    /\ workers[2].res.sui_balance = 0 /\ workers[2].res.staked_sui = 0
    /\ workers[2].res.token_balances[T_SUI] = 0

\* C11: in the end-to-end run row 1 shows native 10.00 ($15.00), row 2 shows
\* native "-", and the totals row shows native 10.00 ($15.00) and a total
\* value of $15.00: the native balance is counted once in the fiat total.
C11_EndToEnd ==
    EndToEndRun =>
        /\ Len(Table.rows) = 2
        /\ Table.rows[1][3] = <<"value", 1000, 1500>>
        /\ Table.rows[2][3] = <<"-">>
        /\ Table.total_row[3] = <<"value", 1000, 1500>>
        /\ Table.total_row[Len(Table.total_row)] = <<"$", 1500>>

\* what the code prints for the end-to-end run: the native cells as stated,
\* and a total value of $30.00
EndToEnd_AsComputed ==
    EndToEndRun =>
        /\ Len(Table.rows) = 2
        /\ Table.rows[1][3] = <<"value", 1000, 1500>>
        /\ Table.rows[2][3] = <<"-">>
        /\ Table.total_row[3] = <<"value", 1000, 1500>>
        /\ Table.total_row[Len(Table.total_row)] = <<"$", 3000>>

\* no element occurs twice in the list
NoRepeats(list) == \A a, b \in DOMAIN list : a # b => list[a] # list[b]

\* C14: validation partitions the candidates into the accepted and the
\* rejected list; a candidate is accepted iff one of its at most MAX_RETRIES
\* probes succeeded, it is not probed again after its first success, and it
\* is rejected only after exactly MAX_RETRIES failed probes.
C14_ValidationPartitions ==
    /\ pc = "validate" =>
         /\ pending \cup Range(valid_proxies) \cup Range(failed_proxies) = Range(proxies)
         /\ pending \cap (Range(valid_proxies) \cup Range(failed_proxies)) = {}
         /\ DOMAIN probed = Range(proxies) \ pending
         /\ \A p \in DOMAIN probed :
              /\ Len(probed[p]) \in 1..MAX_RETRIES
              /\ p \in Range(valid_proxies) <=> \E k \in DOMAIN probed[p] : probed[p][k] = "ok"
              /\ \A k \in DOMAIN probed[p] : probed[p][k] = "ok" => k = Len(probed[p])
              /\ p \in Range(failed_proxies) =>
                   /\ Len(probed[p]) = MAX_RETRIES
                   /\ \A k \in DOMAIN probed[p] : probed[p][k] # "ok"
    /\ Range(valid_proxies) \cap Range(failed_proxies) = {}
    /\ NoRepeats(valid_proxies) /\ NoRepeats(failed_proxies)
    /\ (pc \notin {"start", "validate"} /\ valid_proxies # <<>>) => proxies = valid_proxies

\* validation is over: one candidate accepted at its second probe, one rejected
C14_Witness ==
    /\ pc = "validate" /\ pending = {}
    /\ \E p \in Range(valid_proxies) : Len(probed[p]) = 2
    /\ failed_proxies # <<>>

\* a process_wallet call has been started
FetchStarted == \E i \in DOMAIN workers : workers[i].st # "queued"

\* the loop of lines 344-345 is over and get_token_prices (line 351) has
\* returned its mapping, one price per requested symbol
WarmedUp ==
    /\ di = Len(token_types)
    /\ DOMAIN prices = Range(symbols_with_sui(token_types))

\* C16: no process_wallet call starts before get_token_decimals has returned
\* for every token type of the list and the one warm-up call of
\* get_token_prices has returned; while the fetches run, neither
\* decimals_cache nor price_cache is written and the price mapping does not
\* change.
C16_WarmBeforeFetch ==
    /\ [](FetchStarted => WarmedUp)
    /\ [][pc = "fetch" => UNCHANGED <<decimals_cache, price_cache, prices, di>>]_vars

\* a fetch runs over a list of two token types, both warmed, one of them cached
C16_Witness ==
    /\ pc = "fetch"
    /\ \E i \in DOMAIN workers : workers[i].st = "running" /\ fetches[i] > 0
    /\ Len(token_types) = 2 /\ di = 2
    /\ decimals_cache # <<>> /\ price_cache # <<>>

\* the sum of a field over the records main has folded
FoldedSum(field) == SumOver(Folded, [i \in Folded |-> workers[i].res[field]])

TotalsAreSums ==
    /\ totals.sui = FoldedSum("sui_balance")
    /\ totals.staked = FoldedSum("staked_sui")
    /\ totals.af_sui = FoldedSum("af_sui")
    /\ totals.v_sui = FoldedSum("v_sui")
    /\ totals.total_value = FoldedSum("total_value")
    /\ \A token \in ListedTypes : totals.tokens[token] = AggregateBalance(token)

\* C17: the totals are changed only by a step of main's fold, never by a step
\* of a worker; at every point of the fold, for a token list without
\* duplicates, each total (native, staked, AFSUI, CERT, per token, fiat) is
\* the sum of that field over the records folded so far, in whatever order
\* the workers completed.
C17_TotalsFoldedByMain ==
    /\ []((totals # NoTotals /\ NoDuplicates) => TotalsAreSums)
    /\ [][(pc = "fetch" /\ totals' # totals) =>
             (fi' = fi + 1 /\ workers' = workers /\ workers[fi + 1].st = "done")]_vars

\* both addresses are folded, the second one completed first or not, and
\* native, staked and token totals are all positive
C17_Witness ==
    /\ pc = "fetch" /\ NoDuplicates
    /\ Folded = {1, 2}
    /\ totals.sui > 0 /\ totals.staked > 0 /\ totals.total_value > 0
    /\ \E token \in ListedTypes : totals.tokens[token] > 0

\* ------------------------------------------- the pool of the fetch phase, alone
\* MAX_WORKERS + MaxExtra futures are submitted (lines 364-366); what a
\* future computes is left out, it only completes.
PoolSize == MAX_WORKERS + MaxExtra

\* process_wallet returns or raises in the thread that runs it
FinishWallet(i) ==
    /\ pc = "fetch"
    /\ i \in DOMAIN workers
    /\ workers[i].st = "running"
    /\ workers' = [workers EXCEPT ![i].st = "done"]
    /\ UNCHANGED <<pc, wallets, token_types, proxies, pending, valid_proxies, failed_proxies,
                   di, prices, fi, table_data, token_balances_all, totals, report, fetches>>
    /\ UNCHANGED <<cacheVars, net, now>>
    /\ UNCHANGED <<auxVars, probed>>

NextPool ==
    \/ \E i \in DOMAIN workers : StartWallet(i)
    \/ \E i \in DOMAIN workers : FinishWallet(i)

InitPool ==
    /\ pc = "fetch"
    /\ wallets = [i \in 1..PoolSize |-> EmptyAddr]
    /\ token_types = <<>> /\ proxies = <<>>
    /\ pending = {} /\ valid_proxies = <<>> /\ failed_proxies = <<>>
    /\ di = 0 /\ prices = <<>> /\ fi = 0
    /\ workers = [i \in 1..PoolSize |-> [st |-> "queued", attempt |-> 0, res |-> NoValue]]
    /\ table_data = <<>> /\ token_balances_all = <<>> /\ totals = NoTotals
    /\ report = <<>> /\ fetches = [i \in 1..PoolSize |-> 0] /\ probed = <<>>
    /\ InitCaches /\ IdleWallet /\ IdleRetry /\ IdleRace

SpecPool == InitPool /\ [][NextPool]_vars

InFlight == {i \in DOMAIN workers : workers[i].st = "running"}
Completed == {i \in DOMAIN workers : workers[i].st \in {"done", "raised"}}

\* C15: in the fetch phase at most MAX_WORKERS address fetches are in flight
\* at once, however many addresses there are; the address on line
\* i > MAX_WORKERS has started only if at least i - MAX_WORKERS of the
\* addresses before it have completed.
C15_BoundedPool ==
    pc = "fetch" =>
        /\ Cardinality(InFlight) <= MAX_WORKERS
        /\ \A i \in DOMAIN workers :
             workers[i].st # "queued" =>
                Cardinality({k \in Completed : k < i}) >= i - MAX_WORKERS

\* the pool is full and an address waits
C15_Witness ==
    /\ pc = "fetch"
    /\ Cardinality(InFlight) = MAX_WORKERS
    /\ \E i \in DOMAIN workers : i > MAX_WORKERS /\ workers[i].st = "queued"

\* ------------------------------------------- the runs of main, scheduled fairly
\* Whenever some thread can take a step, one is taken: the main thread runs,
\* the threads of a pool run their futures, and a request returns or fails
\* within its timeout, so no step waits forever for a response.
FairSpec == Init /\ [][Next]_vars /\ WF_vars(Next)

\* no retry loop repeats forever, whatever the transport: the requests of a
\* call are at most MAX_RETRIES per candidate proxy
RetriesBounded ==
    \A plist \in ProxyFiles, scr \in {AlwaysLimited, AlwaysFailing} :
        LET budget == MAX_RETRIES * (IF plist = <<>> THEN 1 ELSE Len(plist))
        IN /\ prices_fetch(<<"SUI">>, plist, scr, FeedData).reqs \in 1..budget
           /\ decimals_fetch(plist, scr, SUI_DECIMALS).reqs \in 1..budget
           /\ balance_loop(scr, 0, 1).reqs \in 1..MAX_RETRIES
           /\ test_proxy(scr).probes \in 1..MAX_RETRIES

\* no address is fetched more often than once per proxy (once, unproxied)
FetchesBounded ==
    \A i \in DOMAIN fetches : fetches[i] <= (IF proxies = <<>> THEN 1 ELSE Len(proxies))

\* the run is over: every dispatched fetch has completed, after at most one
\* whole fetch per proxy, and the report is printed
Terminated ==
    /\ pc = "done" /\ report # <<>>
    /\ DOMAIN workers = DOMAIN wallets
    /\ \A i \in DOMAIN workers :
         /\ workers[i].st \in {"done", "raised"}
         /\ fetches[i] \in 1..(IF proxies = <<>> THEN 1 ELSE Len(proxies))

\* C12: under fair scheduling, with every request returning or failing
\* within its timeout, every run with a non-empty address list terminates:
\* every dispatched fetch completes, the requests are bounded (also under a
\* feed that always answers 429 or a transport that always fails), and the
\* report is printed.
C12_RunsTerminate ==
    /\ []RetriesBounded
    /\ []FetchesBounded
    /\ <>(wallets = <<>> \/ Terminated)

\* a finished run in which an address went through every proxy
C12_Witness ==
    /\ Terminated
    /\ Len(proxies) = 2
    /\ \E i \in DOMAIN workers : fetches[i] = 2

\* ------------------------------------------- the cached lookups, alone
\* One thread calls get_token_decimals and get_token_prices again and again,
\* each call with a list of proxies and a transport of its own.
ProxyLists == {[i \in 1..n |-> ProxyUrl(i)] : n \in 0..MaxProxies}

\* k responses 429, then n network errors, then the final answer for good
RateLimitedThenErrors(k, n) == Repeat("429", k) \o Repeat("err", n)
MetaRetryScripts ==
    {Script(Repeat("err", n), fin) : n \in 0..MaxScript, fin \in {"ok", "null"}}
FeedRetryScripts ==
    {Script(RateLimitedThenErrors(kn[1], kn[2]), fin) :
        kn \in {x \in (0..MaxScript) \X (0..MaxScript) : x[1] + x[2] <= MaxScript},
        fin \in {"ok", "http"}}

LookupTokens == {T_USDC, T_AFSUI}
LookupSymbols == <<"SUI", "USDC">>

\* get_token_decimals(token_type, proxies), lines 131-162, as one step
LookupDecimals(token_type, plist, scr) ==
    /\ IF token_type \in DOMAIN decimals_cache
       THEN /\ last' = <<[fn |-> "decimals", arg |-> token_type, proxies |-> plist,
                          scr |-> scr, hit |-> TRUE, ret |-> decimals_cache[token_type],
                          stored |-> FALSE, reqs |-> 0,
                          first |-> token_type \notin DOMAIN resolved]>>
            /\ resolved' = IF token_type \in DOMAIN resolved THEN resolved
                           ELSE (token_type :> decimals_cache[token_type]) @@ resolved
            /\ UNCHANGED decimals_cache
       ELSE LET out == decimals_fetch(plist, scr, ChainDecimals(token_type))
            IN /\ decimals_cache' = IF out.store THEN (token_type :> out.ret) @@ decimals_cache
                                    ELSE decimals_cache
               /\ last' = <<[fn |-> "decimals", arg |-> token_type, proxies |-> plist,
                             scr |-> scr, hit |-> FALSE, ret |-> out.ret,
                             stored |-> out.store, reqs |-> out.reqs,
                             first |-> token_type \notin DOMAIN resolved]>>
               /\ resolved' = IF token_type \in DOMAIN resolved THEN resolved
                              ELSE (token_type :> out.ret) @@ resolved
    /\ UNCHANGED <<price_cache, net, now, mainVars, walletVars, raceVars>>

\* get_token_prices(token_symbols, proxies), lines 80-129, as one step
LookupPrices(token_symbols, plist, scr) ==
    /\ IF prices_hit(price_cache, now)
       THEN /\ last' = <<[fn |-> "prices", arg |-> token_symbols, proxies |-> plist,
                          scr |-> scr, hit |-> TRUE, ret |-> price_cache.prices,
                          stored |-> FALSE, reqs |-> 0, first |-> FALSE]>>
            /\ UNCHANGED price_cache
       ELSE LET out == prices_fetch(token_symbols, plist, scr, FeedData)
            IN /\ price_cache' = IF out.store THEN prices_store(out.ret, now) ELSE price_cache
               /\ last' = <<[fn |-> "prices", arg |-> token_symbols, proxies |-> plist,
                             scr |-> scr, hit |-> FALSE, ret |-> out.ret,
                             stored |-> out.store, reqs |-> out.reqs, first |-> FALSE]>>
    /\ UNCHANGED <<decimals_cache, resolved, net, now, mainVars, walletVars, raceVars>>

NextRetry ==
    \/ \E token_type \in LookupTokens, plist \in ProxyLists, scr \in MetaRetryScripts :
         LookupDecimals(token_type, plist, scr)
    \/ \E plist \in ProxyLists, scr \in FeedRetryScripts :
         LookupPrices(LookupSymbols, plist, scr)

InitRetry == IdleMain /\ InitCaches /\ IdleWallet /\ IdleRetry /\ IdleRace

SpecRetry == InitRetry /\ [][NextRetry]_vars

\* the latest call, when there is one
Last == last[1]
Called(fn) == last # <<>> /\ Last.fn = fn

\* the latest call went to the network with a transport that fails n times
\* with a network error and then succeeds
FailsThenSucceeds(n) ==
    /\ last # <<>> /\ ~Last.hit
    /\ Last.scr = Script(Repeat("err", n), "ok")

\* C2: with P candidate proxies and a transport that fails with a network
\* error on the first N requests and succeeds afterwards, get_token_decimals
\* and get_token_prices return the remote result iff
\* N < MAX_RETRIES * max(1, P): the retries of one proxy exhausted, the next
\* proxy is tried.
C2_RetriesTimesProxies ==
    \A n \in 0..MaxScript :
        FailsThenSucceeds(n) =>
            LET p == IF Len(Last.proxies) = 0 THEN 1 ELSE Len(Last.proxies)
                remote == IF Last.fn = "decimals" THEN ChainDecimals(Last.arg)
                          ELSE prices_of(Last.arg, FeedData)
            IN (Last.stored /\ Last.ret = remote) <=> (n < MAX_RETRIES * p)

\* C3: a 429 of the price feed is retried without consuming an attempt: after
\* k >= 1 responses 429 and then a success get_token_prices returns the
\* feed's mapping, and with n network errors after the 429s it succeeds
\* exactly when it does after the n network errors alone.
C3_RateLimitKeepsBudget ==
    \A k \in 1..MaxScript, n \in 0..MaxScript :
        (Called("prices") /\ ~Last.hit
         /\ Last.scr = Script(RateLimitedThenErrors(k, n), "ok")) =>
            LET alone == prices_fetch(Last.arg, Last.proxies,
                                      Script(Repeat("err", n), "ok"), FeedData)
            IN /\ Last.stored = alone.store
               /\ Last.ret = alone.ret
               /\ n = 0 => Last.ret = prices_of(Last.arg, FeedData)

\* C4: get_token_decimals is idempotent: once a call for a token type has
\* resolved, with the remote value or with the fallback 9, the value is in
\* decimals_cache, and every later call returns it with no remote request.
C4_DecimalsMemoized ==
    Called("decimals") =>
        /\ Last.arg \in DOMAIN decimals_cache
        /\ decimals_cache[Last.arg] = Last.ret
        /\ ~Last.first => (Last.reqs = 0 /\ Last.ret = resolved[Last.arg])

\* ------------------------------------------- process_wallet, alone
\* One call of process_wallet after the other, each sub-query of a fetch a
\* step with a transport of its own.
RpcScripts ==
    {Script(Repeat("err", n), fin) : n \in 0..MaxScript, fin \in {"ok", "null"}}

\* every request the retry loop can issue on the transport is a network error
AllRequestsFail(scr) == \A i \in 1..MAX_RETRIES : Resp(scr, i) = "err"

Call == call[1]
Running == call # <<>> /\ Call.st = "running"

\* process_wallet(wallet, index, token_types, proxies, prices) is entered
BeginWallet(i) ==
    /\ call = <<>>
    /\ i \in DOMAIN wallets
    /\ call' = <<[index |-> i, attempt |-> 0, stage |-> 0, sui_balance |-> 0,
                  staked_sui |-> 0, token_balances |-> <<>>, allfailed |-> TRUE,
                  q |-> <<>>, st |-> "running", res |-> <<>>,
                  used |-> <<wallet_proxy(proxies, i, 0)>>, fetched |-> <<>>]>>
    /\ UNCHANGED <<mainVars, cacheVars, net, now, retryVars, raceVars>>

\* what a sub-query leaves in the call: its value, or the exception
AfterQuery(kind, scr, r) ==
    [Call EXCEPT !.stage = @ + 1,
                 !.st = IF r.raised THEN "raised" ELSE "running",
                 !.allfailed = @ /\ AllRequestsFail(scr),
                 !.q = <<[kind |-> kind, scr |-> scr, ret |-> r.ret,
                          raised |-> r.raised, reqs |-> r.reqs,
                          proxy |-> wallet_proxy(proxies, Call.index, Call.attempt)]>>]

\* get_all_balances, line 236
QuerySui(scr) ==
    /\ Running /\ Call.stage = 0
    /\ LET r == get_sui_balance(scr, ChainNative(Account(wallets[Call.index])))
       IN call' = <<[AfterQuery("native", scr, r) EXCEPT !.sui_balance = r.ret]>>
    /\ UNCHANGED <<mainVars, cacheVars, net, now, retryVars, raceVars>>

\* get_all_balances, line 237
QueryStaked(scr) ==
    /\ Running /\ Call.stage = 1
    /\ LET r == get_staked_sui(scr, ChainStaked(Account(wallets[Call.index])))
       IN call' = <<[AfterQuery("staked", scr, r) EXCEPT !.staked_sui = r.ret]>>
    /\ UNCHANGED <<mainVars, cacheVars, net, now, retryVars, raceVars>>

\* get_all_balances, lines 239-241: the next token type of the list
QueryToken(scr) ==
    /\ Running /\ Call.stage \in 2..(Len(token_types) + 1)
    /\ LET token_type == token_types[Call.stage - 1]
           r == get_token_balance(decimals_cache, token_type, scr,
                                  ChainToken(Account(wallets[Call.index]), token_type))
       IN call' = <<[AfterQuery("token", scr, r) EXCEPT
                        !.token_balances = (token_type :> r.ret) @@ @]>>
    /\ UNCHANGED <<mainVars, cacheVars, net, now, retryVars, raceVars>>

\* process_wallet, lines 266-305: a fetch that found something, or the last
\* one, is made into the record; else the next proxy is tried
EndAttempt ==
    /\ Running /\ Call.stage = Len(token_types) + 2
    /\ call' = <<IF any_balance(Call) \/ Call.attempt + 1 >= wallet_attempts(proxies)
                 THEN [Call EXCEPT !.st = "returned",
                          !.res = <<wallet_result(Call.index, wallets[Call.index], token_types,
                                                  Call.sui_balance, Call.staked_sui,
                                                  Call.token_balances, prices)>>,
                          !.fetched = Append(@, [sui_balance |-> Call.sui_balance,
                                                 staked_sui |-> Call.staked_sui,
                                                 token_balances |-> Call.token_balances])]
                 ELSE [Call EXCEPT !.attempt = @ + 1, !.stage = 0,
                          !.used = Append(@, wallet_proxy(proxies, Call.index, Call.attempt + 1)),
                          !.fetched = Append(@, [sui_balance |-> Call.sui_balance,
                                                 staked_sui |-> Call.staked_sui,
                                                 token_balances |-> Call.token_balances])]>>
    /\ UNCHANGED <<mainVars, cacheVars, net, now, retryVars, raceVars>>

\* the caller has the record, or the exception
EndWallet ==
    /\ call # <<>> /\ Call.st \in {"returned", "raised"}
    /\ call' = <<>>
    /\ UNCHANGED <<mainVars, cacheVars, net, now, retryVars, raceVars>>

NextWallet ==
    \/ \E i \in 1..MaxWallets : BeginWallet(i)
    \/ \E scr \in RpcScripts : QuerySui(scr)
    \/ \E scr \in RpcScripts : QueryStaked(scr)
    \/ \E scr \in RpcScripts : QueryToken(scr)
    \/ EndAttempt
    \/ EndWallet

InitWallet ==
    /\ pc = "idle"
    /\ wallets = [i \in 1..MaxWallets |-> Addr(i)]
    /\ token_types \in TokenLists
    /\ proxies \in ProxyLists
    /\ prices = prices_of(symbols_with_sui(token_types), FeedData)
    /\ pending = {} /\ valid_proxies = <<>> /\ failed_proxies = <<>>
    /\ di = 0 /\ workers = <<>> /\ fi = 0
    /\ table_data = <<>> /\ token_balances_all = <<>> /\ totals = NoTotals
    /\ report = <<>> /\ fetches = <<>> /\ probed = <<>>
    /\ decimals_cache \in {<<>>, [t \in Range(token_types) |-> ChainDecimals(t)]}
    /\ price_cache = <<>> /\ net = {} /\ now = 0
    /\ IdleWallet /\ IdleRetry /\ IdleRace

SpecWallet == InitWallet /\ [][NextWallet]_vars

\* C7: a sub-query whose every request fails with a network error yields 0,
\* after MAX_RETRIES requests and without an exception; and process_wallet
\* does not raise for an address whose every request fails on every proxy:
\* it returns a record whose native, staked and token balances are all 0.
C7_FailedQueriesAreZero ==
    call # <<>> =>
        /\ (Call.q # <<>> /\ AllRequestsFail(Call.q[1].scr)) =>
              /\ Call.q[1].ret = 0
              /\ ~Call.q[1].raised
              /\ Call.q[1].reqs = MAX_RETRIES
        /\ Call.allfailed => Call.st # "raised"
        /\ (Call.allfailed /\ Call.st = "returned") =>
              /\ Call.attempt + 1 = wallet_attempts(proxies)
              /\ Call.res[1].sui_balance = 0
              /\ Call.res[1].staked_sui = 0
              /\ DOMAIN Call.res[1].token_balances = Range(token_types)
              /\ \A t \in Range(token_types) : Call.res[1].token_balances[t] = 0
              /\ Call.res[1].total_sui = 0 /\ Call.res[1].total_value = 0

\* an unreachable address with funds on the chain, after the last proxy
C7_Witness ==
    /\ call # <<>> /\ Call.st = "returned" /\ Call.allfailed
    /\ Call.attempt >= 1
    /\ ChainNative(Account(wallets[Call.index])) > 0
    /\ Call.q[1].kind = "token" /\ Call.q[1].ret = 0

\* what a whole fetch found: nothing at all
NothingFound(f) ==
    /\ f.sui_balance = 0 /\ f.staked_sui = 0
    /\ \A t \in DOMAIN f.token_balances : f.token_balances[t] = 0

\* C13: with P > 0 proxies, process_wallet for the address at 0-based
\* position k fetches native, staked and every token, in this order, through
\* proxies[(k + a) mod P] in attempt a = 0, 1, ...; it goes on to the next
\* attempt only while an attempt found nothing, makes at most P attempts,
\* each through another proxy, and returns the values of the attempt it
\* stopped at: the first that found something, or the P-th.
C13_ProxyRotation ==
    (call # <<>> /\ proxies # <<>>) =>
        LET P == Len(proxies)
            k == Call.index - 1
        IN /\ Len(Call.used) = Call.attempt + 1
           /\ Len(Call.used) <= P
           /\ \A a \in 0..Call.attempt : Call.used[a + 1] = proxies[((k + a) % P) + 1]
           /\ \A a, b \in DOMAIN Call.used : a # b => Call.used[a] # Call.used[b]
           /\ Call.q # <<>> =>
                /\ Call.q[1].proxy \in Range(Call.used)
                /\ Call.st = "running" =>
                     /\ Call.stage = 0 => Call.q[1].kind = "token"
                     /\ Call.stage = 1 => Call.q[1].kind = "native"
                     /\ Call.stage = 2 => Call.q[1].kind = "staked"
                     /\ Call.stage > 2 => Call.q[1].kind = "token"
                     /\ Call.stage > 0 => Call.q[1].proxy = Call.used[Call.attempt + 1]
           /\ \A a \in DOMAIN Call.fetched :
                a <= Call.attempt => NothingFound(Call.fetched[a])
           /\ Call.st = "returned" =>
                /\ Len(Call.fetched) = Call.attempt + 1
                /\ ~NothingFound(Call.fetched[Call.attempt + 1]) \/ Call.attempt + 1 = P
                /\ Call.res[1].sui_balance = Call.fetched[Call.attempt + 1].sui_balance
                /\ Call.res[1].staked_sui = Call.fetched[Call.attempt + 1].staked_sui
                /\ Call.res[1].token_balances = Call.fetched[Call.attempt + 1].token_balances

\* the second address of two found nothing through proxies[1] and something
\* through proxies[0]
C13_Witness ==
    /\ call # <<>> /\ Call.st = "returned"
    /\ Call.index = 2 /\ Len(proxies) = 2
    /\ Call.used = <<proxies[2], proxies[1]>>
    /\ ~NothingFound(Call.fetched[2])

\* ------------------------------------------- get_token_prices, concurrently
\* NumCallers threads call get_token_prices(token_symbols) unproxied, again
\* and again.  A call is the check under cache_lock (lines 82-84), the
\* request outside the lock, and the write under the lock (lines 111-113).
SymbolLists == {<<"SUI", "USDC">>, <<"SUI", "AFSUI">>}
TickStep == PRICE_CACHE_DURATION \div TicksPerTTL
\* a feed that answers with an HTTP error other than 429
Refused == Script(<<>>, "http")
RaceScripts == {Answered, Down, Refused, AlwaysLimited}
NeverStored == <<>>

\* cache_lock is held by the thread that is between line 111 and line 114
LockFree == \A k \in DOMAIN callers : callers[k].pc # "writing"

IdleCaller == [pc |-> "idle", symbols |-> <<>>, seen |-> NeverStored, out |-> <<>>]

\* lines 82-84 without cache_lock
CheckCache_unlocked(c, token_symbols) ==
    /\ callers[c].pc = "idle"
    /\ IF prices_hit(price_cache, now)
       THEN /\ returned' = <<[symbols |-> token_symbols, hit |-> TRUE,
                              ret |-> Get(price_cache, "prices", <<>>), reqs |-> 0]>>
            /\ UNCHANGED callers
       ELSE /\ callers' = [callers EXCEPT ![c] =
                              [pc |-> "waiting", symbols |-> token_symbols,
                               seen |-> IF "timestamp" \in DOMAIN price_cache
                                        THEN <<price_cache.timestamp>> ELSE NeverStored,
                               out |-> <<>>]]
            /\ UNCHANGED returned
    /\ UNCHANGED <<price_cache, decimals_cache, net, now, mainVars, walletVars, retryVars,
                   written_by>>

\* lines 82-84, under cache_lock, and on a miss the request of line 102 is on
\* its way
CheckCache(c, token_symbols) ==
    /\ callers[c].pc = "idle"
    /\ LockFree
    /\ IF prices_hit(price_cache, now)
       THEN /\ returned' = <<[symbols |-> token_symbols, hit |-> TRUE,
                              ret |-> price_cache.prices, reqs |-> 0]>>
            /\ UNCHANGED callers
       ELSE /\ callers' = [callers EXCEPT ![c] =
                              [pc |-> "waiting", symbols |-> token_symbols,
                               seen |-> IF "timestamp" \in DOMAIN price_cache
                                        THEN <<price_cache.timestamp>> ELSE NeverStored,
                               out |-> <<>>]]
            /\ UNCHANGED returned
    /\ UNCHANGED <<price_cache, decimals_cache, net, now, mainVars, walletVars, retryVars,
                   written_by>>

\* lines 98-112 and 115-129: the responses arrive; a call that failed returns
\* its zeros; a call that was answered takes cache_lock and writes
\* price_cache["prices"]
FinishRefresh(c, scr) ==
    /\ callers[c].pc = "waiting"
    /\ LET out == prices_fetch(callers[c].symbols, <<>>, scr, FeedData)
       IN IF out.store
          THEN /\ LockFree
               /\ price_cache' = ("prices" :> out.ret) @@ price_cache
               /\ written_by' = [written_by EXCEPT !.prices = <<c>>]
               /\ callers' = [callers EXCEPT ![c].pc = "writing",
                                             ![c].out = <<[ret |-> out.ret, reqs |-> out.reqs]>>]
               /\ UNCHANGED returned
          ELSE /\ returned' = <<[symbols |-> callers[c].symbols, hit |-> FALSE,
                                 ret |-> out.ret, reqs |-> out.reqs]>>
               /\ callers' = [callers EXCEPT ![c] = IdleCaller]
               /\ UNCHANGED <<price_cache, written_by>>
    /\ UNCHANGED <<decimals_cache, net, now, mainVars, walletVars, retryVars>>

\* lines 113-114: price_cache["timestamp"] is written, cache_lock is released
\* and the call returns
StoreTimestamp(c) ==
    /\ callers[c].pc = "writing"
    /\ price_cache' = ("timestamp" :> now) @@ price_cache
    /\ written_by' = [written_by EXCEPT !.timestamp = <<c>>]
    /\ returned' = <<[symbols |-> callers[c].symbols, hit |-> FALSE,
                      ret |-> callers[c].out[1].ret, reqs |-> callers[c].out[1].reqs]>>
    /\ callers' = [callers EXCEPT ![c] = IdleCaller]
    /\ UNCHANGED <<decimals_cache, net, now, mainVars, walletVars, retryVars>>

\* time() moves on
Tick ==
    /\ now + TickStep <= PRICE_CACHE_DURATION
    /\ now' = now + TickStep
    /\ UNCHANGED <<cacheVars, net, mainVars, auxVars>>

NextRace ==
    \/ \E c \in 1..NumCallers, token_symbols \in SymbolLists : CheckCache(c, token_symbols)
    \/ \E c \in 1..NumCallers, scr \in RaceScripts : FinishRefresh(c, scr)
    \/ \E c \in 1..NumCallers : StoreTimestamp(c)
    \/ Tick

InitRace ==
    /\ IdleMain /\ InitCaches /\ IdleWallet /\ IdleRetry
    /\ callers = [c \in 1..NumCallers |-> IdleCaller]
    /\ returned = <<>>
    /\ written_by = [prices |-> <<>>, timestamp |-> <<>>]

SpecRace == InitRace /\ [][NextRace]_vars

\* the callers whose request for the miss on snapshot t (none, or the one
\* stored at a time) is on its way
Racing(t) == {c \in 1..NumCallers : callers[c].pc = "waiting" /\ callers[c].seen = t}

\* C5: the threads that call get_token_prices concurrently on one miss
\* (cache empty or expired) issue one refresh request together, or two at
\* most: never more than two requests for the same miss are on their way.
C5_AtMostOneDuplicate ==
    \A t \in {NeverStored} \cup {<<x>> : x \in 0..PRICE_CACHE_DURATION} :
        Cardinality(Racing(t)) <= 2

\* C6: a get_token_prices call less than PRICE_CACHE_DURATION seconds after
\* the last stored refresh returns the cached mapping, whatever symbols it is
\* given, leaves the cache alone and sends nothing; a call at or after
\* PRICE_CACHE_DURATION seconds, or with nothing stored, sends a request,
\* and returns after at least one request.
C6_FreshnessDecides ==
    [][\A c \in 1..NumCallers :
          /\ \A token_symbols \in SymbolLists :
                CheckCache(c, token_symbols) =>
                   IF "timestamp" \in DOMAIN price_cache
                      /\ now - price_cache.timestamp < PRICE_CACHE_DURATION
                   THEN /\ returned' = <<[symbols |-> token_symbols, hit |-> TRUE,
                                          ret |-> price_cache.prices, reqs |-> 0]>>
                        /\ price_cache' = price_cache
                        /\ callers'[c].pc = "idle"
                   ELSE callers'[c].pc = "waiting"
          /\ (callers[c].pc # "idle" /\ callers'[c].pc = "idle") =>
                (~returned'[1].hit /\ returned'[1].reqs >= 1)
      ]_vars

\* a hit on a snapshot that is not new, for symbols the snapshot lacks
C6_Witness ==
    /\ returned # <<>> /\ returned[1].hit
    /\ "timestamp" \in DOMAIN price_cache /\ now > price_cache.timestamp
    /\ returned[1].ret = price_cache.prices
    /\ Range(returned[1].symbols) # DOMAIN returned[1].ret

\* what a reader that holds cache_lock finds in price_cache: both keys or
\* none, and both written by the same refresh
SnapshotWhole ==
    /\ ("timestamp" \in DOMAIN price_cache) <=> ("prices" \in DOMAIN price_cache)
    /\ written_by.prices = written_by.timestamp

\* C18: whatever the interleaving of the threads that call get_token_prices,
\* a reader that holds cache_lock never finds price_cache half-written:
\* "timestamp" is there iff "prices" is, and the mapping and the timestamp
\* were written together by one refresh.
C18_SnapshotNeverHalfWritten ==
    /\ [](LockFree => SnapshotWhole)
    /\ [][\A c \in 1..NumCallers, token_symbols \in SymbolLists :
             CheckCache(c, token_symbols) => SnapshotWhole]_vars

\* a refresh has replaced the snapshot of an earlier one and a thread has
\* read the new one, while a thread that missed on the old one still waits
C18_Witness ==
    /\ LockFree
    /\ "timestamp" \in DOMAIN price_cache /\ price_cache.timestamp > 0
    /\ written_by.prices # <<>>
    /\ returned # <<>> /\ returned[1].hit /\ returned[1].ret = price_cache.prices
    /\ \E c \in 1..NumCallers :
          /\ callers[c].pc = "waiting" /\ callers[c].seen # NeverStored
          /\ callers[c].seen[1] < price_cache.timestamp

\* the latest call to return had sent requests and came back with the zeros
FailedReturn ==
    /\ returned # <<>> /\ ~returned[1].hit
    /\ returned[1].ret = zero_prices(returned[1].symbols)

\* C20: a get_token_prices call that fails (the retries used up on network
\* errors or on 429 answers, or an HTTP error other than 429) returns 0 for
\* every requested symbol and leaves price_cache as it was: the zeros are
\* never stored and the timestamp does not move; the call after it sends a
\* request again, or returns the snapshot another refresh stored, if that one
\* is still fresh.
C20_FailureLeavesCache ==
    /\ []("prices" \in DOMAIN price_cache =>
             \E symbol \in DOMAIN price_cache.prices : price_cache.prices[symbol] > 0)
    /\ [][\A c \in 1..NumCallers :
             (callers[c].pc = "waiting" /\ callers'[c].pc = "idle") =>
                /\ returned'[1].ret = zero_prices(callers[c].symbols)
                /\ returned'[1].reqs >= 1
                /\ price_cache' = price_cache]_vars
    /\ [][FailedReturn =>
             \A c \in 1..NumCallers, token_symbols \in SymbolLists :
                CheckCache(c, token_symbols) =>
                   IF prices_hit(price_cache, now)
                   THEN returned'[1].hit /\ returned'[1].ret = price_cache.prices
                   ELSE callers'[c].pc = "waiting" /\ price_cache' = price_cache]_vars

\* a call has failed on a single HTTP error while the snapshot another
\* refresh stored is still fresh
C20_Witness ==
    /\ FailedReturn /\ returned[1].reqs = 1
    /\ prices_hit(price_cache, now)
    /\ LockFree

\* ------------------------------------------- get_token_decimals, concurrently
\* the threads call get_token_decimals; the remote answers with the metadata,
\* with a null result, or not at all
DecimalsScripts == {Answered, Malformed, Down}

IdleLookup == [pc |-> "idle", token |-> <<>>]

\* lines 133-135, under cache_lock, and on a miss the request of line 146 is
\* on its way
CheckDecimals(c, token_type) ==
    /\ callers[c].pc = "idle"
    /\ IF token_type \in DOMAIN decimals_cache
       THEN /\ returned' = <<[token |-> token_type, hit |-> TRUE,
                              ret |-> decimals_cache[token_type]]>>
            /\ UNCHANGED callers
       ELSE /\ callers' = [callers EXCEPT ![c] = [pc |-> "waiting", token |-> <<token_type>>]]
            /\ UNCHANGED returned
    /\ UNCHANGED <<cacheVars, net, now, mainVars, walletVars, retryVars, written_by>>

\* lines 143-162: the responses arrive; an answer is written to
\* decimals_cache under cache_lock and returned, a failure returns 9
FinishDecimals(c, scr) ==
    /\ callers[c].pc = "waiting"
    /\ LET token_type == callers[c].token[1]
           out == decimals_fetch(<<>>, scr, ChainDecimals(token_type))
       IN /\ decimals_cache' = IF out.store THEN (token_type :> out.ret) @@ decimals_cache
                               ELSE decimals_cache
          /\ returned' = <<[token |-> token_type, hit |-> FALSE, ret |-> out.ret]>>
    /\ callers' = [callers EXCEPT ![c] = IdleLookup]
    /\ UNCHANGED <<price_cache, net, now, mainVars, walletVars, retryVars, written_by>>

NextDecimals ==
    \/ \E c \in 1..NumCallers, token_type \in LookupTokens : CheckDecimals(c, token_type)
    \/ \E c \in 1..NumCallers, scr \in DecimalsScripts : FinishDecimals(c, scr)

InitDecimals ==
    /\ IdleMain /\ InitCaches /\ IdleWallet /\ IdleRetry
    /\ callers = [c \in 1..NumCallers |-> IdleLookup]
    /\ returned = <<>>
    /\ written_by = <<>>

SpecDecimals == InitDecimals /\ [][NextDecimals]_vars

\* C19: an entry of decimals_cache is written once: no step of a
\* get_token_decimals call, later or concurrent, changes the value
\* decimals_cache holds for a token type, also when two callers missed before
\* either wrote and got different answers.
C19_DecimalsWriteOnce ==
    [][\A token_type \in DOMAIN decimals_cache :
          /\ token_type \in DOMAIN decimals_cache'
          /\ decimals_cache'[token_type] = decimals_cache[token_type]]_vars

\* an entry, once written, is never removed, whatever the interleaving
DecimalsEntriesStay ==
    [][DOMAIN decimals_cache \subseteq DOMAIN decimals_cache']_vars

====